---- MODULE Spec2Model ----
(***************************************************************************)
(* SeleniumPlugin.perform_web_action: the capture -> decide -> resolve ->  *)
(* execute loop of src/plugins/Selenium/selenium_plugin.py, one action per *)
(* statement group that makes an external call.  The browser and the       *)
(* reasoning service are the environment: what they return (and whether    *)
(* they raise) is chosen with \E.  SeleniumPlugin.open_web_page and        *)
(* WebPlugin.extract_data_from_site (src/plugins/Web/web_plugin.py) are    *)
(* modelled the same way, each under a specification of its own.           *)
(***************************************************************************)
EXTENDS Integers, Sequences, FiniteSets, TLC

VARIABLES
    pc,               \* position in perform_web_action / execute_web_action
    done,             \* local `done`                       (line 66)
    current_attempt,  \* local `current_attempt`            (line 68)
    action,           \* local `action`, the WebAction      (line 74)
    message,          \* local `message`                    (lines 76, 79)
    elements,         \* local `elements` of the executor   (lines 129, 134, 139)
    elements_dicts,   \* descriptor list sent to the service (lines 153, 159)
    idx,              \* index returned by match_element_idx (line 174)
    outcome,          \* how the invocation ended
    result,           \* the returned string, when one is returned
    error,            \* the exception that left the call, when one did
    clicks,           \* WebElement.click() invocations in this invocation
    sendKeys,         \* WebElement.send_keys() invocations in this invocation
    decided,          \* decisions received so far, by executor branch
    calls,            \* external calls of the current tick, in order
    acted,            \* the browser-mutating call of the current tick
    snapshot,         \* local `screenshot_b64` of get_web_action (line 85)
    requests,         \* decision requests sent in this invocation (line 89)
    driver,           \* self.driver                        (line 38)
    ai_client,        \* self.ai_client                     (line 44)
    invoked,          \* the kernel function the caller called last
    web_pc,           \* position in WebPlugin.extract_data_from_site
    url,              \* its parameter `url`               (web_plugin.py 27, 72)
    step,             \* its local `step`                  (web_plugin.py 39)
    extracted_data,   \* its local `extracted_data`        (web_plugin.py 38)
    parse_result,     \* its local `result`, a ParseResult (web_plugin.py 67)
    fetched,          \* the URLs requests.get was given, in order
    web_outcome,      \* how extract_data_from_site ended
    web_result        \* what extract_data_from_site returned

vars == << pc, done, current_attempt, action, message, elements, elements_dicts,
           idx, outcome, result, error, clicks, sendKeys, decided, calls, acted,
           snapshot, requests, driver, ai_client, invoked,
           web_pc, url, step, extracted_data, parse_result, fetched, web_outcome,
           web_result >>

\* ------------------------------------------------------------------ bounds
MaxButtons == 1      \* most <button> elements find_elements returns
MaxAnchors == 1      \* most <a> elements find_elements returns
MaxInputs  == 1      \* most <input> elements find_elements returns
MaxUrls    == 3      \* distinct URLs the caller and the service may name
MaxRows    == 1      \* most rows of extracted data a parse returns

\* --------------------------------------------------------- program constants
max_attempts == 15
max_steps == 3

MaxAttemptsMessage == << "Max attempts reached. Could not complete the action." >>
WaitingMessage     == << "Waiting..." >>
KeysRETURN         == "Keys.RETURN"
OpenedMessage      == << "Web page opened. You may now perform actions." >>
TooManyStepsMessage == << "Too many steps needed to extract requested data." >>
NotFoundMessage    == << "The requested data was not found." >>

\* WebActionType, plus one value outside the enum (what a stubbed decision
\* client or a later enum member would hand to execute_web_action).
WebActionType == { "click", "type_text", "type_enter", "wait", "none" }
OtherActionType == "scroll"
ActionKinds == WebActionType \cup { OtherActionType }

Targets  == { "Accept cookies" }
Contents == { "laptops" }
TerminationMessages == { "contact@example.com", "" }

\* WebAction (pydantic model): the four fields of a decision.
WebAction == [ action : ActionKinds, target : Targets, content : Contents,
               termination_message : TerminationMessages ]

NoAction  == [ action |-> "unset" ]
NoMessage == << >>
NoIdx     == "unset"
NoAct     == << >>

\* The handles __init__ creates (lines 38-48).
DriverHandle == [ session |-> "edge", quit |-> FALSE ]
ClientHandle == [ client |-> "azure-openai", closed |-> FALSE ]

\* The page as the mutating calls made so far have left it.
PageState == << clicks, sendKeys >>

\* Mutant of Screenshot: the first screenshot is kept and used again.
ScreenshotCached(attempt, page) == [ attempt |-> 1, page |-> << 0, 0 >> ]

\* lines 120-122: the screenshot of the page as it is now, taken in this
\* iteration.
Screenshot(attempt, page) == [ attempt |-> attempt, page |-> page ]

NoSnapshot == [ attempt |-> 0, page |-> << 0, 0 >> ]

\* ------------------------------------------------------------- WebPlugin data
\* URLs, named by number: the caller's `url` and the service's next_url.
Urls == 1..MaxUrls
NoUrl == 0

\* list[data_model]: the rows a parse extracted.
DataLists == { [ i \in 1..n |-> "row" ] : n \in 0..MaxRows }

\* ParseResult (lines 34-36)
ParseResult == [ extracted_data : DataLists, next_url : Urls ]
NoParseResult == [ extracted_data |-> << >>, next_url |-> NoUrl ]

\* Mutant of StepsExhausted: the bound is checked one step late.
StepsExhaustedLate(n) == n > max_steps + 1

\* web_plugin.py line 45
StepsExhausted(n) == n > max_steps

\* WebPlugin.extract_data_from_site is not running and keeps its state.
WebPluginIdle ==
    UNCHANGED << web_pc, url, step, extracted_data, parse_result, fetched,
                 web_outcome, web_result >>

\* str(...) of a termination message / f-string pieces, as a tuple of pieces.
Str(s) == << s >>

\* ----------------------------------------------------------- page elements
\* A WebElement as find_elements returns it: its tag, its position among the
\* elements of that tag, and what is_displayed() answers.
Element(tag, i, shown) == [ tag |-> tag, id |-> i, displayed |-> shown ]

ElementLists(tag, max) ==
    UNION { { [ i \in 1..n |-> Element(tag, i - 1, f[i]) ] : f \in [ 1..n -> BOOLEAN ] }
            : n \in 0..max }

\* f"{element}": the WebElement's repr names the element, not its state.
ElementRef(e) == << e.tag, e.id >>

ElementText(e) == << "text", e.tag, e.id >>
ElementName(e) == << "name", e.id >>
ElementPlaceholder(e) == << "placeholder", e.id >>

\* enumerate(elements): pairs (i, element), i from 0.
Enumerate(elems) == [ k \in 1..Len(elems) |-> [ i |-> k - 1, element |-> elems[k] ] ]

Displayed(p) == p.element.displayed

\* Mutant of ClickableDescriptors: the is_displayed() filter is missing.
ClickableDescriptorsUnfiltered(elems) ==
    [ k \in 1..Len(elems) |-> [ idx |-> k - 1, text |-> ElementText(elems[k]) ] ]

\* match_clickable, line 153: the descriptors of the displayed elements; `idx`
\* is the element's position in `elements` (enumerate runs before the filter).
ClickableDescriptors(elems) ==
    LET shown == SelectSeq(Enumerate(elems), Displayed)
    IN  [ k \in 1..Len(shown) |->
            [ idx |-> shown[k].i, text |-> ElementText(shown[k].element) ] ]

\* match_input, line 159.
InputDescriptors(elems) ==
    LET shown == SelectSeq(Enumerate(elems), Displayed)
    IN  [ k \in 1..Len(shown) |->
            [ idx |-> shown[k].i, name |-> ElementName(shown[k].element),
              placeholder |-> ElementPlaceholder(shown[k].element) ] ]

\* Mutant of PyIndex: the index is taken as 1-based (elements[idx - 1]).
PyIndexOffByOne(elems, i) == IF i > 0 THEN elems[i] ELSE elems[Len(elems)]

\* Python list indexing elements[idx] (lines 155, 161): 0-based, a negative
\* index counts from the end, anything else raises IndexError.
PyIndexable(elems, i) == (0 - Len(elems)) <= i /\ i < Len(elems)

PyIndex(elems, i) == IF i >= 0 THEN elems[i + 1] ELSE elems[Len(elems) + i + 1]

\* The integers the service may answer with, one per case of elements[idx]:
\* below the list, the negative positions, the positions, above the list.
IdxAnswers(elems) == (0 - Len(elems) - 1) .. Len(elems)

\* Mutant of AttemptsExhausted: the bound is checked one attempt late.
AttemptsExhaustedLate(n) == n > max_attempts + 1

\* line 71
AttemptsExhausted(n) == n > max_attempts

\* ------------------------------------------------------------------ state
\* The branch of execute_web_action a decision kind takes (lines 126-149).
Branch(kind) ==
    CASE kind = "click" -> "click"
      [] kind \in { "type_text", "type_enter" } -> "send_keys"
      [] kind = "wait" -> "wait"
      [] kind = "none" -> "none"
      [] OTHER -> "unsupported"

Branches == { "click", "send_keys", "wait", "none", "unsupported" }

ZeroDecided == [ b \in Branches |-> 0 ]

Init ==
    /\ pc = "idle"
    /\ done = FALSE
    /\ current_attempt = 0
    /\ action = NoAction
    /\ message = NoMessage
    /\ elements = << >>
    /\ elements_dicts = << >>
    /\ idx = NoIdx
    /\ outcome = "none"
    /\ result = NoMessage
    /\ error = "none"
    /\ clicks = 0
    /\ sendKeys = 0
    /\ decided = ZeroDecided
    /\ calls = << >>
    /\ acted = NoAct
    /\ snapshot = NoSnapshot
    /\ requests = 0
    /\ driver = DriverHandle
    /\ ai_client = ClientHandle
    /\ invoked = "none"
    /\ web_pc = "idle"
    /\ url = NoUrl
    /\ step = 0
    /\ extracted_data = << >>
    /\ parse_result = NoParseResult
    /\ fetched = << >>
    /\ web_outcome = "none"
    /\ web_result = NoMessage

\* Mutant of Raise: the loop catches the exception and tries again.
RaiseAndRetry(e) ==
    /\ pc' = "loop"
    /\ error' = e
    /\ elements' = << >>
    /\ elements_dicts' = << >>
    /\ idx' = NoIdx
    /\ snapshot' = NoSnapshot
    /\ UNCHANGED << done, current_attempt, result, outcome, driver, ai_client,
                    invoked >>
    /\ WebPluginIdle

\* Mutant of Raise: the browser is shut down when an error ends the call.
RaiseAndQuit(e) ==
    /\ pc' = "done"
    /\ outcome' = "raised"
    /\ error' = e
    /\ elements' = << >>
    /\ elements_dicts' = << >>
    /\ idx' = NoIdx
    /\ snapshot' = NoSnapshot
    /\ driver' = [ driver EXCEPT !.quit = TRUE ]
    /\ UNCHANGED << done, current_attempt, result, ai_client, invoked >>
    /\ WebPluginIdle

\* An exception leaves perform_web_action: nothing in lines 65-80 catches it.
\* The frames of get_web_action and of the executor are unwound with it; the
\* plugin's handles are not touched.
Raise(e) ==
    /\ pc' = "done"
    /\ outcome' = "raised"
    /\ error' = e
    /\ elements' = << >>
    /\ elements_dicts' = << >>
    /\ idx' = NoIdx
    /\ snapshot' = NoSnapshot
    /\ UNCHANGED << done, current_attempt, result, driver, ai_client, invoked >>
    /\ WebPluginIdle

\* The call goes on: nothing is returned or raised, the handles stay.
Running ==
    /\ UNCHANGED << outcome, result, error, driver, ai_client, invoked >>
    /\ WebPluginIdle

\* perform_web_action is called (lines 65-68); a finished call may be followed
\* by another one on the same plugin object.
Invoke ==
    /\ pc \in { "idle", "done" }
    /\ pc' = "loop"
    /\ done' = FALSE
    /\ current_attempt' = 0
    /\ action' = NoAction
    /\ message' = NoMessage
    /\ elements' = << >>
    /\ elements_dicts' = << >>
    /\ idx' = NoIdx
    /\ outcome' = "none"
    /\ result' = NoMessage
    /\ error' = "none"
    /\ clicks' = 0
    /\ sendKeys' = 0
    /\ decided' = ZeroDecided
    /\ calls' = << >>
    /\ acted' = NoAct
    /\ snapshot' = NoSnapshot
    /\ requests' = 0
    /\ invoked' = "perform_web_action"
    /\ UNCHANGED << driver, ai_client >>
    /\ WebPluginIdle

\* lines 69, 80: `while not done` fails, return message.
LoopExit ==
    /\ pc = "loop"
    /\ done
    /\ pc' = "done"
    /\ outcome' = "returned"
    /\ result' = message
    /\ UNCHANGED << done, current_attempt, action, message, elements, elements_dicts,
                    idx, error, clicks, sendKeys, decided, calls, acted, snapshot,
                    requests, driver, ai_client, invoked >>
    /\ WebPluginIdle

\* Mutant of Exhausted: the check of line 71 does not end the call.
ExhaustedKeepsLooping ==
    /\ pc = "loop"
    /\ ~done
    /\ AttemptsExhausted(current_attempt + 1)
    /\ current_attempt' = current_attempt + 1
    /\ calls' = << "sleep" >>
    /\ pc' = "capture"
    /\ Running
    /\ UNCHANGED << done, action, message, elements, elements_dicts, idx, clicks,
                    sendKeys, decided, acted, snapshot, requests >>

\* lines 69-72: the attempt counter passes max_attempts.
Exhausted ==
    /\ pc = "loop"
    /\ ~done
    /\ AttemptsExhausted(current_attempt + 1)
    /\ current_attempt' = current_attempt + 1
    /\ pc' = "done"
    /\ outcome' = "exhausted"
    /\ result' = MaxAttemptsMessage
    /\ UNCHANGED << done, action, message, elements, elements_dicts, idx, error,
                    clicks, sendKeys, decided, calls, acted, snapshot, requests,
                    driver, ai_client, invoked >>
    /\ WebPluginIdle

\* Mutant of TickStart: the pause before the capture is missing.
TickStartNoPause ==
    /\ pc = "loop"
    /\ ~done
    /\ ~AttemptsExhausted(current_attempt + 1)
    /\ current_attempt' = current_attempt + 1
    /\ calls' = << >>
    /\ pc' = "capture"
    /\ Running
    /\ UNCHANGED << done, action, message, elements, elements_dicts, idx, clicks,
                    sendKeys, decided, acted >>
    /\ UNCHANGED << snapshot, requests >>

\* lines 69-73: a tick starts, with its 0.2 s pause.
TickStart ==
    /\ pc = "loop"
    /\ ~done
    /\ ~AttemptsExhausted(current_attempt + 1)
    /\ current_attempt' = current_attempt + 1
    /\ calls' = << "sleep" >>
    /\ pc' = "capture"
    /\ Running
    /\ UNCHANGED << done, action, message, elements, elements_dicts, idx, clicks,
                    sendKeys, decided, acted >>
    /\ UNCHANGED << snapshot, requests >>

\* lines 85, 119-122: the screenshot of <body>.
Capture ==
    /\ pc = "capture"
    /\ calls' = Append(calls, "capture")
    /\ pc' = "decide"
    /\ Running
    /\ UNCHANGED << done, current_attempt, action, message, elements, elements_dicts,
                    idx, clicks, sendKeys, decided, acted >>
    /\ snapshot' = Screenshot(current_attempt, PageState)
    /\ UNCHANGED requests

\* line 120: find_element(By.TAG_NAME, "body") finds nothing, or the
\* screenshot fails.
CaptureFails ==
    /\ pc = "capture"
    /\ calls' = Append(calls, "capture")
    /\ Raise("NoSuchElementException")
    /\ UNCHANGED << action, message, clicks, sendKeys, decided, acted >>
    /\ UNCHANGED requests

\* Mutant of Decide: the client sends the request a second time on its own.
DecideRetries ==
    /\ pc = "decide"
    /\ \E a \in WebAction :
          /\ action' = a
          /\ decided' = [ decided EXCEPT ![Branch(a.action)] = @ + 1 ]
    /\ calls' = Append(calls, "decide")
    /\ pc' = "execute"
    /\ Running
    /\ UNCHANGED << done, current_attempt, message, elements, elements_dicts, idx,
                    clicks, sendKeys, acted >>
    /\ snapshot' = NoSnapshot
    /\ requests' = requests + 2

\* lines 86-116: the screenshot goes to the service with the objective, once;
\* the service answers with a WebAction.
Decide ==
    /\ pc = "decide"
    /\ \E a \in WebAction :
          /\ action' = a
          /\ decided' = [ decided EXCEPT ![Branch(a.action)] = @ + 1 ]
    /\ calls' = Append(calls, "decide")
    /\ pc' = "execute"
    /\ Running
    /\ UNCHANGED << done, current_attempt, message, elements, elements_dicts, idx,
                    clicks, sendKeys, acted >>
    /\ snapshot' = NoSnapshot
    /\ requests' = requests + 1

\* lines 89-115: transport failure, or a reply that does not validate.
DecideFails ==
    /\ pc = "decide"
    /\ calls' = Append(calls, "decide")
    /\ Raise("OpenAIError")
    /\ UNCHANGED << action, message, clicks, sendKeys, decided, acted >>
    /\ requests' = requests + 1

\* lines 126-129: Click; buttons + anchors as the page has them now.
EnumerateClickable ==
    /\ pc = "execute"
    /\ action.action = "click"
    /\ \E buttons \in ElementLists("button", MaxButtons),
          anchors \in ElementLists("a", MaxAnchors) :
          elements' = buttons \o anchors
    /\ calls' = Append(calls, "find_elements")
    /\ pc' = "match"
    /\ Running
    /\ UNCHANGED << done, current_attempt, action, message, elements_dicts, idx,
                    clicks, sendKeys, decided, acted >>
    /\ UNCHANGED << snapshot, requests >>

\* lines 133-134 and 138-139: TypeText / TypeEnter; the inputs of the page.
EnumerateInput ==
    /\ pc = "execute"
    /\ action.action \in { "type_text", "type_enter" }
    /\ elements' \in ElementLists("input", MaxInputs)
    /\ calls' = Append(calls, "find_elements")
    /\ pc' = "match"
    /\ Running
    /\ UNCHANGED << done, current_attempt, action, message, elements_dicts, idx,
                    clicks, sendKeys, decided, acted >>
    /\ UNCHANGED << snapshot, requests >>

\* The descriptor list match_clickable / match_input builds for the action.
Descriptors(kind, elems) ==
    IF kind = "click" THEN ClickableDescriptors(elems) ELSE InputDescriptors(elems)

\* lines 153-154 / 159-160 and 164-175: the descriptors go to the service,
\* which answers with an integer.
Match ==
    /\ pc = "match"
    /\ pc' = "index"
    /\ elements_dicts' = Descriptors(action.action, elements)
    /\ idx' \in IdxAnswers(elements)
    /\ calls' = Append(calls, "match_element_idx")
    /\ Running
    /\ UNCHANGED << done, current_attempt, action, message, elements, clicks,
                    sendKeys, decided, acted >>
    /\ UNCHANGED << snapshot, requests >>

\* lines 166-173: the resolver's request fails.
MatchFails ==
    /\ pc = "match"
    /\ calls' = Append(calls, "match_element_idx")
    /\ Raise("OpenAIError")
    /\ UNCHANGED << action, message, clicks, sendKeys, decided, acted >>
    /\ UNCHANGED requests

\* lines 155 / 161: elements[idx] is outside the list.
IndexFails ==
    /\ pc = "index"
    /\ ~PyIndexable(elements, idx)
    /\ Raise("IndexError")
    /\ UNCHANGED << action, message, clicks, sendKeys, decided, calls, acted >>
    /\ UNCHANGED requests

\* Mutant of KeysFor: TypeEnter sends the decision's content as well.
KeysForContent(a) == a.content

\* What send_keys is given: the content (line 136) or the Enter key (line 141).
KeysFor(a) == IF a.action = "type_text" THEN a.content ELSE KeysRETURN

\* The executor's result string (lines 132, 137, 142).
ClickedMessage(e) == << "Clicked the element: ", ElementRef(e) >>

TypedMessage(a, e) ==
    IF a.action = "type_text"
    THEN << "Typed '", a.content, "' in the input field: ", ElementRef(e) >>
    ELSE << "Pressed Enter in the input field: ", ElementRef(e) >>

\* lines 155, 131-132: the element is clicked.
Click ==
    /\ pc = "index"
    /\ action.action = "click"
    /\ PyIndexable(elements, idx)
    /\ LET element == PyIndex(elements, idx)
       IN  /\ acted' = << "click", element >>
           /\ message' = ClickedMessage(element)
    /\ clicks' = clicks + 1
    /\ calls' = Append(calls, "click")
    /\ pc' = "executed"
    /\ Running
    /\ UNCHANGED << done, current_attempt, action, elements, elements_dicts, idx,
                    sendKeys, decided >>
    /\ UNCHANGED << snapshot, requests >>

\* line 131: click() is invoked and the driver raises (the element is stale,
\* covered, not interactable).
ClickFails ==
    /\ pc = "index"
    /\ action.action = "click"
    /\ PyIndexable(elements, idx)
    /\ acted' = << "click", PyIndex(elements, idx) >>
    /\ clicks' = clicks + 1
    /\ calls' = Append(calls, "click")
    /\ Raise("WebDriverException")
    /\ UNCHANGED << action, message, sendKeys, decided >>
    /\ UNCHANGED requests

\* lines 161, 136-137 and 141-142: keys are sent to the element.
SendKeys ==
    /\ pc = "index"
    /\ action.action \in { "type_text", "type_enter" }
    /\ PyIndexable(elements, idx)
    /\ LET element == PyIndex(elements, idx)
       IN  /\ acted' = << "send_keys", element, KeysFor(action) >>
           /\ message' = TypedMessage(action, element)
    /\ sendKeys' = sendKeys + 1
    /\ calls' = Append(calls, "send_keys")
    /\ pc' = "executed"
    /\ Running
    /\ UNCHANGED << done, current_attempt, action, elements, elements_dicts, idx,
                    clicks, decided >>
    /\ UNCHANGED << snapshot, requests >>

\* lines 136 / 141: send_keys() is invoked and the driver raises.
SendKeysFails ==
    /\ pc = "index"
    /\ action.action \in { "type_text", "type_enter" }
    /\ PyIndexable(elements, idx)
    /\ acted' = << "send_keys", PyIndex(elements, idx), KeysFor(action) >>
    /\ sendKeys' = sendKeys + 1
    /\ calls' = Append(calls, "send_keys")
    /\ Raise("WebDriverException")
    /\ UNCHANGED << action, message, clicks, decided >>
    /\ UNCHANGED requests

\* Mutant of ExecWait: the branch returns the termination message, as the
\* None branch does.
ExecWaitAsNone ==
    /\ pc = "execute"
    /\ action.action = "wait"
    /\ calls' = Append(calls, "sleep")
    /\ message' = << action.termination_message >>
    /\ pc' = "executed"
    /\ Running
    /\ UNCHANGED << done, current_attempt, action, elements, elements_dicts, idx,
                    clicks, sendKeys, decided, acted >>
    /\ UNCHANGED << snapshot, requests >>

\* lines 143-145: Wait.
ExecWait ==
    /\ pc = "execute"
    /\ action.action = "wait"
    /\ calls' = Append(calls, "sleep")
    /\ message' = WaitingMessage
    /\ pc' = "executed"
    /\ Running
    /\ UNCHANGED << done, current_attempt, action, elements, elements_dicts, idx,
                    clicks, sendKeys, decided, acted >>
    /\ UNCHANGED << snapshot, requests >>

\* Mutant of ExecNone: the None branch is missing, so the kind reaches the
\* final else.
ExecNoneMissing ==
    /\ pc = "execute"
    /\ action.action = "none"
    /\ Raise("ValueError")
    /\ UNCHANGED << action, message, clicks, sendKeys, decided, calls, acted >>
    /\ UNCHANGED requests

\* lines 146-147: None.
ExecNone ==
    /\ pc = "execute"
    /\ action.action = "none"
    /\ message' = Str(action.termination_message)
    /\ pc' = "executed"
    /\ Running
    /\ UNCHANGED << done, current_attempt, action, elements, elements_dicts, idx,
                    clicks, sendKeys, decided, calls, acted >>
    /\ UNCHANGED << snapshot, requests >>

\* Mutant of ExecUnsupported: an unknown kind is treated as Wait.
ExecUnsupportedAsWait ==
    /\ pc = "execute"
    /\ action.action \notin WebActionType
    /\ calls' = Append(calls, "sleep")
    /\ message' = WaitingMessage
    /\ pc' = "executed"
    /\ Running
    /\ UNCHANGED << done, current_attempt, action, elements, elements_dicts, idx,
                    clicks, sendKeys, decided, acted >>
    /\ UNCHANGED << snapshot, requests >>

\* lines 148-149: any other kind.
ExecUnsupported ==
    /\ pc = "execute"
    /\ action.action \notin WebActionType
    /\ Raise("ValueError")
    /\ UNCHANGED << action, message, clicks, sendKeys, decided, calls, acted >>
    /\ UNCHANGED requests

\* Mutant of IsTermination: the comparison never succeeds.
IsTerminationNever(a) == FALSE

\* line 77
IsTermination(a) == a.action = "none"

\* lines 77-79: back in the loop; the executor's locals are gone and the tick
\* is over.
AfterExecute ==
    /\ pc = "executed"
    /\ IF IsTermination(action)
       THEN /\ done' = TRUE
            /\ message' = Str(action.termination_message)
       ELSE UNCHANGED << done, message >>
    /\ elements' = << >>
    /\ elements_dicts' = << >>
    /\ idx' = NoIdx
    /\ calls' = << >>
    /\ acted' = NoAct
    /\ pc' = "loop"
    /\ Running
    /\ UNCHANGED << current_attempt, action, clicks, sendKeys, decided >>
    /\ UNCHANGED << snapshot, requests >>

Next ==
    \/ Invoke
    \/ LoopExit
    \/ Exhausted
    \/ TickStart
    \/ Capture
    \/ CaptureFails
    \/ Decide
    \/ DecideFails
    \/ EnumerateClickable
    \/ EnumerateInput
    \/ Match
    \/ MatchFails
    \/ IndexFails
    \/ Click
    \/ ClickFails
    \/ SendKeys
    \/ SendKeysFails
    \/ ExecWait
    \/ ExecNone
    \/ ExecUnsupported
    \/ AfterExecute

Spec == Init /\ [][Next]_vars

\* -------------------------------------------------------------- open_web_page
\* What open_web_page leaves alone: it has no loop and no locals of its own.
OpenFrame ==
    /\ UNCHANGED << done, current_attempt, action, message, elements, elements_dicts,
                    idx, clicks, sendKeys, decided, calls, acted, snapshot, requests,
                    driver, ai_client >>
    /\ WebPluginIdle

\* lines 55-58: driver.get(url) comes back and the confirmation is returned.
OpenWebPage ==
    /\ pc \in { "idle", "done" }
    /\ invoked' = "open_web_page"
    /\ pc' = "done"
    /\ outcome' = "returned"
    /\ result' = OpenedMessage
    /\ error' = "none"
    /\ OpenFrame

\* line 57: driver.get(url) raises (bad URL, DNS failure, timeout); nothing in
\* open_web_page catches it, so it leaves the function.
OpenWebPageFails ==
    /\ pc \in { "idle", "done" }
    /\ invoked' = "open_web_page"
    /\ pc' = "done"
    /\ outcome' = "raised"
    /\ result' = NoMessage
    /\ error' = "WebDriverException"
    /\ OpenFrame

\* The plugin as the kernel sees it: both of its functions, called in any
\* order, one at a time.
NextPlugin ==
    \/ Next
    \/ OpenWebPage
    \/ OpenWebPageFails

SpecPlugin == Init /\ [][NextPlugin]_vars

\* A step of a call in progress (everything but the caller starting a call).
Step ==
    \/ LoopExit \/ Exhausted \/ TickStart
    \/ Capture \/ CaptureFails \/ Decide \/ DecideFails
    \/ EnumerateClickable \/ EnumerateInput \/ Match \/ MatchFails \/ IndexFails
    \/ Click \/ ClickFails \/ SendKeys \/ SendKeysFails
    \/ ExecWait \/ ExecNone \/ ExecUnsupported \/ AfterExecute

\* Every browser and reasoning-service call comes back (with a value or an
\* exception), so a call in progress always takes its next step.
FairSpec == Spec /\ WF_vars(Step)

\* ------------------------------------------- WebPlugin.extract_data_from_site
\* SeleniumPlugin is not running and keeps its state.
SeleniumPluginIdle ==
    UNCHANGED << pc, done, current_attempt, action, message, elements,
                 elements_dicts, idx, outcome, result, error, clicks, sendKeys,
                 decided, calls, acted, snapshot, requests, driver, ai_client,
                 invoked >>

\* The call goes on: nothing is returned or raised.
Extracting == UNCHANGED << web_outcome, web_result >> /\ SeleniumPluginIdle

\* An exception of requests.get or of the parse call leaves the function:
\* nothing in lines 27-76 catches it.
ExtractRaise ==
    /\ web_pc' = "done"
    /\ web_outcome' = "raised"
    /\ UNCHANGED << url, step, extracted_data, parse_result, fetched, web_result >>
    /\ SeleniumPluginIdle

\* lines 27-40: extract_data_from_site(url, fields_to_extract) is called; a
\* finished call may be followed by another one.
ExtractInvoke ==
    /\ web_pc \in { "idle", "done" }
    /\ \E u \in Urls : url' = u
    /\ extracted_data' = << >>
    /\ step' = 0
    /\ parse_result' = NoParseResult
    /\ fetched' = << >>
    /\ web_outcome' = "none"
    /\ web_result' = NoMessage
    /\ web_pc' = "while"
    /\ SeleniumPluginIdle

\* lines 43, 76: the loop condition fails, return extracted_data.
ReturnData ==
    /\ web_pc = "while"
    /\ Len(extracted_data) # 0
    /\ web_pc' = "done"
    /\ web_outcome' = "data"
    /\ web_result' = extracted_data
    /\ UNCHANGED << url, step, extracted_data, parse_result, fetched >>
    /\ SeleniumPluginIdle

\* lines 43-46: the step counter passes max_steps.
TooManySteps ==
    /\ web_pc = "while"
    /\ Len(extracted_data) = 0
    /\ StepsExhausted(step + 1)
    /\ step' = step + 1
    /\ web_pc' = "done"
    /\ web_outcome' = "too_many_steps"
    /\ web_result' = TooManyStepsMessage
    /\ UNCHANGED << url, extracted_data, parse_result, fetched >>
    /\ SeleniumPluginIdle

\* lines 43-48: a step starts.
StepStart ==
    /\ web_pc = "while"
    /\ Len(extracted_data) = 0
    /\ ~StepsExhausted(step + 1)
    /\ step' = step + 1
    /\ web_pc' = "fetch"
    /\ UNCHANGED << url, extracted_data, parse_result, fetched >>
    /\ Extracting

\* lines 51-56: requests.get(url) answers; the text is cut to 300 000
\* characters, which changes what is sent on and nothing of the control state.
Fetch ==
    /\ web_pc = "fetch"
    /\ fetched' = Append(fetched, url)
    /\ web_pc' = "parse"
    /\ UNCHANGED << url, step, extracted_data, parse_result >>
    /\ Extracting

\* line 51: requests.get raises (connection error, invalid URL).
FetchFails ==
    /\ web_pc = "fetch"
    /\ ExtractRaise

\* lines 59-69: the parse yields rows; they become extracted_data.
ParseFound ==
    /\ web_pc = "parse"
    /\ \E r \in ParseResult :
          /\ Len(r.extracted_data) > 0
          /\ parse_result' = r
          /\ extracted_data' = r.extracted_data
    /\ web_pc' = "while"
    /\ UNCHANGED << url, step, fetched >>
    /\ Extracting

\* lines 59-72: no rows, and a next_url other than the URL fetched: follow it.
ParseFollow ==
    /\ web_pc = "parse"
    /\ \E r \in ParseResult :
          /\ Len(r.extracted_data) = 0
          /\ r.next_url # url
          /\ parse_result' = r
          /\ url' = r.next_url
    /\ web_pc' = "while"
    /\ UNCHANGED << step, extracted_data, fetched >>
    /\ Extracting

\* lines 59-74: no rows, and next_url is the URL just fetched.
ParseNotFound ==
    /\ web_pc = "parse"
    /\ \E r \in ParseResult :
          /\ Len(r.extracted_data) = 0
          /\ r.next_url = url
          /\ parse_result' = r
    /\ web_pc' = "done"
    /\ web_outcome' = "not_found"
    /\ web_result' = NotFoundMessage
    /\ UNCHANGED << url, step, extracted_data, fetched >>
    /\ SeleniumPluginIdle

\* lines 59-67: the parse call raises, or the reply has no parsed message.
ParseFails ==
    /\ web_pc = "parse"
    /\ ExtractRaise

NextExtract ==
    \/ ExtractInvoke
    \/ ReturnData
    \/ TooManySteps
    \/ StepStart
    \/ Fetch
    \/ FetchFails
    \/ ParseFound
    \/ ParseFollow
    \/ ParseNotFound
    \/ ParseFails

SpecExtract == Init /\ [][NextExtract]_vars

\* A step of an extraction in progress.
ExtractStep ==
    \/ ReturnData \/ TooManySteps \/ StepStart
    \/ Fetch \/ FetchFails
    \/ ParseFound \/ ParseFollow \/ ParseNotFound \/ ParseFails

\* requests.get and the parse call come back (with a value or an exception),
\* so an extraction in progress always takes its next step.
FairSpecExtract == SpecExtract /\ WF_vars(ExtractStep)

\* ------------------------------------------------------------------ claims
SumDecided ==
    decided.click + decided.send_keys + decided.wait + decided.none + decided.unsupported

Called(name) == \E k \in 1..Len(calls) : calls[k] = name

\* The executor holds a resolved index: after match_element_idx, before line 77.
Resolved ==
    /\ pc \in { "index", "executed" }
    /\ action.action \in { "click", "type_text", "type_enter" }

\* C1: in a tick whose decision is None the executor yields the decision's
\* termination_message, neither click nor send_keys is called in that tick
\* (every mutating call of the run belongs to an earlier Click/Type decision),
\* the loop is left, and the call returns exactly that termination_message.
C1_NoneReturnsTerminationMessage ==
    action.action = "none" =>
        /\ acted = NoAct
        /\ ~Called("click") /\ ~Called("send_keys")
        /\ clicks = decided.click /\ sendKeys = decided.send_keys
        /\ pc \in { "execute", "executed", "loop", "done" }
        /\ pc = "executed" =>
              /\ message = << action.termination_message >>
              /\ calls = << "sleep", "capture", "decide" >>
        /\ pc = "loop" => done /\ message = << action.termination_message >>
        /\ pc = "done" =>
              /\ outcome = "returned"
              /\ result = << action.termination_message >>

C1_Witness ==
    /\ outcome = "returned"
    /\ action.action = "none"
    /\ result = << "contact@example.com" >>
    /\ sendKeys = 1

\* C2: a run with no None decision and no error ends with the fixed
\* exhaustion message after exactly max_attempts ticks, and click and
\* send_keys are invoked at most max_attempts times in a run.
C2_ExhaustionAfterMaxAttempts ==
    /\ clicks + sendKeys <= max_attempts
    /\ SumDecided <= max_attempts
    /\ (pc = "done" /\ outcome # "raised" /\ decided.none = 0) =>
          /\ outcome = "exhausted"
          /\ result = MaxAttemptsMessage
          /\ SumDecided = max_attempts
    /\ outcome = "exhausted" => decided.none = 0

C2_Witness ==
    /\ outcome = "exhausted"
    /\ result = MaxAttemptsMessage
    /\ clicks + sendKeys = max_attempts
    /\ clicks > 0 /\ sendKeys > 0

\* C3: the first None decision is the last decision of the run: when it
\* arrives at tick k (1 <= k <= max_attempts) the call returns its
\* termination_message, never the exhaustion message, after exactly k ticks,
\* and click was invoked once per Click decision of ticks 1..k-1.
C3_FirstNoneEndsRunAtItsTick ==
    /\ decided.none <= 1
    /\ decided.none = 1 =>
          /\ action.action = "none"
          /\ current_attempt = SumDecided
          /\ current_attempt \in 1..max_attempts
          /\ clicks = decided.click
    /\ (pc = "done" /\ decided.none = 1) =>
          /\ outcome = "returned"
          /\ result = << action.termination_message >>
          /\ result # MaxAttemptsMessage

C3_Witness ==
    /\ outcome = "returned"
    /\ decided.none = 1
    /\ current_attempt = max_attempts
    /\ clicks = 2

\* C4: every way a perform_web_action call ends hands one string to the
\* caller: termination, exhaustion, and every capture / decision /
\* resolution / element / unsupported-action error.
C4_EveryEndReturnsAString ==
    pc = "done" =>
        /\ outcome \in { "returned", "exhausted" }
        /\ result # NoMessage

\* C5: an error in a tick ends the call at once: the exception leaves
\* perform_web_action with nothing returned, and the next thing that happens
\* on the plugin is a fresh call, never a later tick, a repeat of the failed
\* step, a reasoning-service call or a click / send_keys.
C5_ErrorAbortsTheCall ==
    /\ [](error # "none" => (pc = "done" /\ outcome = "raised" /\ result = NoMessage))
    /\ [][error # "none" =>
            /\ pc' = "loop"
            /\ current_attempt' = 0
            /\ error' = "none"
            /\ calls' = << >>
            /\ clicks' = 0 /\ sendKeys' = 0
            /\ decided' = ZeroDecided]_vars

C5_Witness ==
    /\ outcome = "raised"
    /\ error = "IndexError"
    /\ current_attempt = 3
    /\ clicks = 1 /\ sendKeys = 1

\* C6: an index from the service outside [0, len(descriptors)) is refused:
\* no element is clicked or typed into for it.
C6_OutOfRangeIndexNeverActs ==
    (Resolved /\ (idx < 0 \/ idx >= Len(elements_dicts))) => acted = NoAct

C8_EmptyPoolIsNotResolved ==
    (pc \in { "index", "executed" } /\ elements_dicts = << >>) =>
        /\ ~Called("match_element_idx")
        /\ acted = NoAct

\* C9: a decision whose kind is outside WebActionType makes the executor
\* raise ValueError: the call ends there with nothing returned, the loop is
\* not left as for None, there is no pause as for Wait, and neither click
\* nor send_keys is called.
C9_UnsupportedKindRaises ==
    (action \in WebAction /\ action.action \notin WebActionType) =>
        /\ pc \in { "execute", "done" }
        /\ ~done
        /\ acted = NoAct
        /\ calls = << "sleep", "capture", "decide" >>
        /\ pc = "done" =>
              /\ outcome = "raised"
              /\ error = "ValueError"
              /\ result = NoMessage

C9_Witness ==
    /\ action.action = OtherActionType
    /\ error = "ValueError"
    /\ current_attempt = 2
    /\ clicks = 1

\* C10: a Wait tick calls neither click nor send_keys, yields the literal
\* waiting notice and uses up one attempt; a run whose decisions are all
\* Wait makes no click and no send_keys call and, unless an error ends it,
\* returns the exhaustion message after exactly max_attempts ticks.
C10_WaitOnlyBurnsAnAttempt ==
    /\ (pc = "executed" /\ action.action = "wait") =>
          /\ message = WaitingMessage
          /\ acted = NoAct
          /\ calls = << "sleep", "capture", "decide", "sleep" >>
          /\ current_attempt = SumDecided
    /\ decided.wait = SumDecided =>
          /\ clicks = 0 /\ sendKeys = 0
          /\ (pc = "done" /\ outcome # "raised") =>
                /\ outcome = "exhausted"
                /\ result = MaxAttemptsMessage
                /\ decided.wait = max_attempts
                /\ current_attempt = max_attempts + 1

C10_Witness ==
    /\ outcome = "exhausted"
    /\ decided.wait = max_attempts
    /\ clicks = 0 /\ sendKeys = 0

\* C11: for TypeText the executor makes one send_keys call, on the element
\* elements[idx] the resolver's index selects, with exactly the decision's
\* content, and its result string holds the content and the element's
\* reference; for TypeEnter the one send_keys call carries the Enter key and
\* not the content.  click is not called in either case.
C11_TypeSendsContentOrEnter ==
    (pc = "executed" /\ action.action \in { "type_text", "type_enter" }) =>
        /\ Len(acted) = 3
        /\ acted[1] = "send_keys"
        /\ acted[2] = (IF idx >= 0 THEN elements[idx + 1]
                                   ELSE elements[Len(elements) + idx + 1])
        /\ calls = << "sleep", "capture", "decide", "find_elements",
                      "match_element_idx", "send_keys" >>
        /\ sendKeys = decided.send_keys
        /\ action.action = "type_text" =>
              /\ acted[3] = action.content
              /\ message = << "Typed '", action.content, "' in the input field: ",
                              << acted[2].tag, acted[2].id >> >>
        /\ action.action = "type_enter" =>
              /\ acted[3] = "Keys.RETURN"
              /\ acted[3] # action.content
              /\ message = << "Pressed Enter in the input field: ",
                              << acted[2].tag, acted[2].id >> >>

C11_Witness ==
    /\ pc = "executed"
    /\ action.action = "type_text"
    /\ action.content = "laptops"
    /\ Len(elements) = 1
    /\ acted = << "send_keys", elements[1], "laptops" >>

\* The external calls of one tick, in the order the code makes them, for
\* each branch of the executor.
ResolveOrder(last) ==
    << "sleep", "capture", "decide", "find_elements", "match_element_idx", last >>

IsPrefix(s, t) == Len(s) <= Len(t) /\ \A k \in 1..Len(s) : s[k] = t[k]

\* C14: within one call the steps of a tick come one after the other in the
\* fixed order pause, capture, decide, then (Click / TypeText / TypeEnter)
\* enumerate, resolve, browser action; between two ticks no call is pending,
\* so a tick's capture comes only after the previous tick's execute is over,
\* and a tick holds at most one decision request, one resolver request and
\* one click / send_keys.
C14_TickStepsAreOrdered ==
    /\ \/ IsPrefix(calls, ResolveOrder("click"))
       \/ IsPrefix(calls, ResolveOrder("send_keys"))
       \/ IsPrefix(calls, << "sleep", "capture", "decide", "sleep" >>)
    /\ pc \in { "idle", "loop" } => calls = << >>
    /\ pc = "capture" => calls = << "sleep" >>
    /\ pc = "decide" => calls = << "sleep", "capture" >>
    /\ pc = "execute" => calls = << "sleep", "capture", "decide" >>
    /\ pc = "match" => calls = << "sleep", "capture", "decide", "find_elements" >>
    /\ pc = "index" =>
          calls = << "sleep", "capture", "decide", "find_elements", "match_element_idx" >>
    /\ pc = "executed" =>
          calls = ( CASE action.action = "click" -> ResolveOrder("click")
                      [] action.action \in { "type_text", "type_enter" } ->
                            ResolveOrder("send_keys")
                      [] action.action = "wait" ->
                            << "sleep", "capture", "decide", "sleep" >>
                      [] OTHER -> << "sleep", "capture", "decide" >> )
    /\ (pc = "done" /\ outcome # "raised") => calls = << >>
    /\ Called("click") => action.action = "click"
    /\ Called("send_keys") => action.action \in { "type_text", "type_enter" }

C14_Witness ==
    /\ pc = "executed"
    /\ current_attempt = 2
    /\ calls = ResolveOrder("click")
    /\ clicks = 2

\* C18: when the service answers with the idx of a descriptor of the list it
\* was sent, the element clicked or typed into is the element that
\* descriptor was built from, whatever mix of displayed and hidden elements
\* the list was built over; for Click the list is built over the buttons
\* followed by the anchors.
C18_ListedIndexSelectsItsElement ==
    Resolved =>
        /\ action.action = "click" =>
              \A i, j \in 1..Len(elements) :
                 (i < j /\ elements[i].tag = "a") => elements[j].tag = "a"
        /\ \A k \in 1..Len(elements_dicts) :
              LET d == elements_dicts[k]
              IN  /\ d.idx \in 0..(Len(elements) - 1)
                  /\ action.action = "click" =>
                        d.text = << "text", elements[d.idx + 1].tag, elements[d.idx + 1].id >>
                  /\ action.action # "click" =>
                        d.name = << "name", elements[d.idx + 1].id >>
                  /\ (pc = "executed" /\ idx = d.idx) =>
                        acted[2] = elements[d.idx + 1]

C18_Witness ==
    /\ pc = "executed"
    /\ action.action = "click"
    /\ Len(elements) = 2
    /\ ~elements[1].displayed
    /\ Len(elements_dicts) = 1
    /\ idx = elements_dicts[1].idx
    /\ acted = << "click", elements[2] >>

\* C19: every element that click or send_keys is called on was displayed
\* when the list was enumerated and has a descriptor in the list sent to the
\* service.
C19_OnlyListedDisplayedElementsActedOn ==
    (pc = "executed" /\ acted # NoAct) =>
        /\ acted[2].displayed
        /\ \E k \in 1..Len(elements_dicts) :
              elements[elements_dicts[k].idx + 1] = acted[2]

\* C12: perform_web_action leaves self.driver and self.ai_client as
\* __init__ made them, at every point of a call and however the call ends:
\* the same session, not quit; the same client, not closed; so the next call
\* finds them usable.
C12_HandlesOutliveTheCall ==
    /\ driver = [ session |-> "edge", quit |-> FALSE ]
    /\ ai_client = [ client |-> "azure-openai", closed |-> FALSE ]

C12_Witness ==
    /\ outcome = "raised"
    /\ error = "WebDriverException"
    /\ clicks = 2
    /\ ~driver.quit /\ ~ai_client.closed

\* C15: the screenshot a decision request carries was taken in the same
\* iteration, of the page as every click and send_keys of the earlier
\* iterations left it; once the request is made, and across iterations, no
\* screenshot is held.
C15_SnapshotIsFreshEachTick ==
    /\ pc = "decide" =>
          /\ snapshot.attempt = current_attempt
          /\ snapshot.page = << clicks, sendKeys >>
    /\ pc # "decide" => snapshot = NoSnapshot

C15_Witness ==
    /\ pc = "decide"
    /\ current_attempt = 3
    /\ snapshot = [ attempt |-> 3, page |-> << 1, 1 >> ]

\* The iterations of this call that got past the check of line 71.
TicksStarted == IF outcome = "exhausted" THEN current_attempt - 1 ELSE current_attempt

\* C16 as written: when a call has ended, the decision requests it sent are
\* as many as the ticks it started.
C16_OneRequestPerStartedTick ==
    pc = "done" => requests = TicksStarted

\* C16, amended: a tick sends one decision request, after its capture, and
\* never a second one: the requests of a call are as many as the ticks it
\* started, less the one tick (if any) whose capture failed before the
\* request could be made; they never exceed max_attempts; and the iteration
\* that finds the attempts exhausted makes neither a capture nor a request.
C16_OneRequestPerCapturedTick ==
    /\ requests <= max_attempts
    /\ pc \in { "capture", "decide" } => requests = current_attempt - 1
    /\ pc \in { "execute", "match", "index", "executed", "loop" } =>
          requests = current_attempt
    /\ pc = "done" =>
          requests = ( IF error = "NoSuchElementException"
                       THEN TicksStarted - 1 ELSE TicksStarted )
    /\ outcome = "exhausted" =>
          /\ requests = max_attempts
          /\ calls = << >>
          /\ snapshot = NoSnapshot

C16_Witness ==
    /\ outcome = "exhausted"
    /\ requests = max_attempts
    /\ current_attempt = max_attempts + 1
    /\ sendKeys = 2

\* C17: every call ends, whatever the service decides: a call in progress
\* reaches its end, which is one of returned (Terminated), exhausted or
\* raised, within max_attempts ticks; and after the end the plugin takes no
\* step of that call: the next thing that happens is a new call.
C17_EveryCallEnds ==
    /\ [](current_attempt <= max_attempts + 1)
    /\ [](pc = "done" =>
            /\ outcome \in { "returned", "exhausted", "raised" }
            /\ TicksStarted <= max_attempts)
    /\ [](pc # "done" => outcome = "none")
    /\ [][pc = "done" => (pc' = "loop" /\ current_attempt' = 0 /\ outcome' = "none")]_vars
    /\ (pc \notin { "idle", "done" }) ~> (pc = "done")

C17_Witness ==
    /\ pc = "done"
    /\ outcome = "exhausted"
    /\ decided.click = 5 /\ decided.wait = 5 /\ decided.send_keys = 5

\* C13 as written: whenever open_web_page has ended it has returned a string
\* to its caller: the confirmation when driver.get succeeded, and a string
\* other than the confirmation, reporting the failure, when driver.get failed.
C13_OpenWebPageFailureIsAResultString ==
    (pc = "done" /\ invoked = "open_web_page") =>
        /\ outcome = "returned"
        /\ result # NoMessage
        /\ (error = "none") <=> (result = OpenedMessage)

\* The steps of this extraction that fetched and parsed without raising.
StepsDone == IF web_pc = "parse" THEN Len(fetched) - 1 ELSE Len(fetched)

\* C20: an extraction in progress always ends, after at most max_steps
\* fetches, whatever next_url the service names.  A parse that yields rows is
\* the last step and those rows are returned; a parse that yields no rows and
\* names the URL just fetched is the last step and the not-found message is
\* returned; otherwise the URL named is fetched next, and when max_steps steps
\* have gone by like that the too-many-steps message is returned.
C20_ExtractEndsWithinMaxSteps ==
    /\ [](Len(fetched) <= max_steps /\ step <= max_steps + 1)
    /\ []((web_pc = "done" /\ web_outcome = "data") =>
            /\ web_result = parse_result.extracted_data
            /\ Len(web_result) > 0
            /\ Len(fetched) = step)
    /\ []((web_pc = "done" /\ web_outcome = "not_found") =>
            /\ web_result = NotFoundMessage
            /\ Len(parse_result.extracted_data) = 0
            /\ parse_result.next_url = fetched[Len(fetched)]
            /\ Len(fetched) = step)
    /\ []((web_pc = "done" /\ web_outcome = "too_many_steps") =>
            /\ web_result = TooManyStepsMessage
            /\ Len(fetched) = max_steps
            /\ step = max_steps + 1
            /\ Len(parse_result.extracted_data) = 0
            /\ parse_result.next_url # fetched[max_steps])
    /\ [](web_pc = "done" <=> web_outcome \in { "data", "not_found", "too_many_steps", "raised" })
    /\ [][(web_pc = "parse" /\ web_outcome' # "raised") =>
            IF Len(parse_result'.extracted_data) > 0
            THEN web_pc' = "while" /\ extracted_data' = parse_result'.extracted_data
            ELSE IF parse_result'.next_url = url
                 THEN web_pc' = "done" /\ web_outcome' = "not_found"
                 ELSE web_pc' = "while" /\ url' = parse_result'.next_url]_vars
    /\ [][(web_pc = "while" /\ Len(extracted_data) > 0) =>
            (web_pc' = "done" /\ web_outcome' = "data")]_vars
    /\ [][(web_pc = "while" /\ Len(extracted_data) = 0 /\ StepsDone = max_steps) =>
            (web_pc' = "done" /\ web_outcome' = "too_many_steps")]_vars
    /\ (web_pc \notin { "idle", "done" }) ~> (web_pc = "done")

\* The service sends the extraction round in a circle: 1, 2, 1.
C20_Witness ==
    /\ web_pc = "done"
    /\ web_outcome = "too_many_steps"
    /\ fetched = << 1, 2, 1 >>

====
